---- MODULE Spec2Model ----
(***************************************************************************)
(* Borrowing / fine / reservation lifecycle of the library service.        *)
(*                                                                         *)
(* The data store is the five collections users, books, transactions,      *)
(* fines and reservations.  Every request handler is an async function:    *)
(* each `await` on the store is one atomic step of the worker that runs    *)
(* the handler, and steps of different workers interleave freely.  A       *)
(* document loaded by a handler is a private in-memory copy (kept in loc)  *)
(* and doc.save() writes back only the paths the handler modified.         *)
(***************************************************************************)
EXTENDS Integers, Sequences, FiniteSets, TLC

VARIABLES
  users,         \* userId -> [status, role]
  books,         \* bookId -> [totalCopies, availableCopies, status]
  transactions,  \* sequence of loan documents, _id = index
  fines,         \* sequence of fine documents, _id = index
  reservations,  \* sequence of reservation documents, _id = index
  now,           \* wall clock (new Date()), in ticks
  pc,            \* worker -> position inside its handler ("idle" when free)
  loc,           \* worker -> the handler's local variables
  resp,          \* the last response sent (res.status(..).json(..))
  pre,           \* the store and the clock as they were when the latest request arrived
  prev,          \* resp and pre as they were when the latest request arrived
  serial,        \* number of reservationDate stamps taken (their order within a tick)
  budget         \* number of requests the model still admits

vars == <<users, books, transactions, fines, reservations, now, pc, loc, resp, pre, prev,
          serial, budget>>
store == <<users, books, transactions, fines, reservations>>

----------------------------------------------------------------------------
\* Bounds of the model.
NProcs == 2
MaxTime == 4
DayLen == 2
MaxReqs == 3
MaxConcReqs == 2
MaxCopies == 2
MaxExpiry == 3
MaxAdjusts == 2

\* Policy constants of the program.
BorrowerLimit == 5
StaffLimit == 10
DailyRate == 1

NoDate == 0 - 1
Procs == 1 .. NProcs
Idle == [op |-> "none"]
DueDates == {1}
FineAmounts == {5}
FineReasons == {"overdue", "damage"}
CopyInputs == {<<>>} \cup {<<n>> : n \in (0 - 1) .. MaxCopies}
ExpiryDates == 1 .. MaxExpiry
StaffOf(us) == {u \in DOMAIN us : us[u].role \in {"admin", "librarian"}}
StatusInputs == {<<>>, <<"available">>, <<"unavailable">>}

Db ==
  [books |-> books, transactions |-> transactions, fines |-> fines,
   reservations |-> reservations, now |-> now]

----------------------------------------------------------------------------
\* Worker plumbing.

\* A free worker picks up a request.
Begin(p) ==
  /\ pc[p] = "idle"
  /\ budget > 0
  /\ budget' = budget - 1
  /\ pre' = Db
  /\ prev' = [resp |-> resp, pre |-> pre]

\* The handler goes on to its next await with locals l.
Goto(p, label, l) ==
  /\ pc' = [pc EXCEPT ![p] = label]
  /\ loc' = [loc EXCEPT ![p] = l]
  /\ UNCHANGED resp

\* The handler sends response r and ends.
Respond(p, r) ==
  /\ pc' = [pc EXCEPT ![p] = "idle"]
  /\ loc' = [loc EXCEPT ![p] = Idle]
  /\ resp' = r

\* A failure response; req holds the request's parameters.
Fail(op, code, message, req) ==
  [op |-> op, success |-> FALSE, code |-> code, message |-> message] @@ req

----------------------------------------------------------------------------
\* Book documents.

Book(total, available) ==
  [totalCopies |-> total, availableCopies |-> available, status |-> "available"]

\* Schema validators (min: 0) and the pre('save') hook.
BookValidWithoutHook(doc) == doc.totalCopies >= 0 /\ doc.availableCopies >= 0

BookValid(doc) ==
  /\ doc.totalCopies >= 0
  /\ doc.availableCopies >= 0
  /\ doc.availableCopies <= doc.totalCopies

\* doc.save(): $set of the paths whose value differs from the loaded one.
BookWrite(stored, loaded, doc) ==
  [stored EXCEPT
     !.totalCopies = IF doc.totalCopies # loaded.totalCopies THEN doc.totalCopies ELSE @,
     !.availableCopies = IF doc.availableCopies # loaded.availableCopies
                         THEN doc.availableCopies ELSE @,
     !.status = IF doc.status # loaded.status THEN doc.status ELSE @]

\* book.availableCopies -= 1 (issueBook) and book.availableCopies += 1 (returnBook).
DecrementAvailableSkipped(book) == book

DecrementAvailable(book) == [book EXCEPT !.availableCopies = @ - 1]

IncrementAvailableSkipped(book) == book

IncrementAvailable(book) == [book EXCEPT !.availableCopies = @ + 1]

\* Transaction documents.
\* A new loan: the schema defaults give status issued, fineAmount 0, no returnDate.
Loan(userId, bookId, issueDate, dueDate) ==
  [userId |-> userId, bookId |-> bookId, issueDate |-> issueDate, dueDate |-> dueDate,
   returnDate |-> NoDate, fineAmount |-> 0, status |-> "issued", notes |-> <<>>]

IsIssuedTo(t, userId) == t.userId = userId /\ t.status = "issued"

IssuedLoans(txs, userId) == {i \in DOMAIN txs : IsIssuedTo(txs[i], userId)}

IssuedLoansOf(txs, userId, bookId) ==
  {i \in IssuedLoans(txs, userId) : txs[i].bookId = bookId}

IssuedCopies(txs, bookId) ==
  {i \in DOMAIN txs : txs[i].bookId = bookId /\ txs[i].status = "issued"}

BorrowingLimitOffByOne(role) ==
  IF role = "borrower" THEN BorrowerLimit + 1 ELSE StaffLimit + 1

BorrowingLimit(role) == IF role = "borrower" THEN BorrowerLimit ELSE StaffLimit

\* pre('save') hook of the transaction schema.
\* transaction.status !== 'issued'
IsNotIssuedIgnored(transaction) == FALSE

IsNotIssued(transaction) == transaction.status # "issued"

\* dueDate is required: a save without one fails validation.
TxRequired(doc) == doc.dueDate # NoDate

TxValid(doc) == ~(doc.returnDate # NoDate /\ doc.returnDate < doc.issueDate)

\* Fine documents.
IsFineOf(f, userId) == f.userId = userId

IsPendingFineOf(f, userId) == f.userId = userId /\ f.paymentStatus = "pending"

PendingFines(fs, userId) == {i \in DOMAIN fs : IsPendingFineOf(fs[i], userId)}

FinesOfTx(fs, txId) == {i \in DOMAIN fs : fs[i].transactionId = txId}

NewFine(userId, txId, amount, reason) ==
  [userId |-> userId, transactionId |-> txId, amount |-> amount, reason |-> reason,
   paymentStatus |-> "pending", paymentDate |-> NoDate, processed |-> FALSE]

\* pre('save') hook of the fine schema.
FinePreSave(doc, t) ==
  IF doc.paymentStatus = "paid" /\ doc.paymentDate = NoDate
  THEN [doc EXCEPT !.paymentDate = t] ELSE doc

\* A fine that Fine.findByIdAndDelete removed: its id stays taken and
\* Fine.findById(id) finds nothing.
NoFine ==
  [userId |-> 0, transactionId |-> 0, amount |-> 0, reason |-> "none",
   paymentStatus |-> "deleted", paymentDate |-> NoDate, processed |-> FALSE]

\* The schema validators of a fine that fine.save() runs: amount min 0 and the
\* reason enum.
FineReasonEnum == {"overdue", "damage", "lost", "other"}

FineValid(doc) == doc.amount >= 0 /\ doc.reason \in FineReasonEnum

\* returnDate > transaction.dueDate
IsOverdue(returnDate, dueDate) == returnDate > dueDate

\* Math.ceil((returnDate - dueDate) / (1000 * 60 * 60 * 24)); a day is DayLen ticks.
OverdueDaysFloor(returnDate, dueDate) == (returnDate - dueDate) \div DayLen

OverdueDays(returnDate, dueDate) == ((returnDate - dueDate) + DayLen - 1) \div DayLen

\* let fineAmount = 0; if overdue, fineAmount = overdueDays * 1
LateFine(returnDate, dueDate) ==
  IF IsOverdue(returnDate, dueDate) THEN OverdueDays(returnDate, dueDate) * DailyRate ELSE 0

----------------------------------------------------------------------------
\* issueBook: POST /api/transactions/issue

IssueBook_findUser(p) ==
  /\ Begin(p)
  /\ \E userId \in DOMAIN users, bookId \in DOMAIN books, dueDate \in DueDates :
       LET user == users[userId]
           l == [op |-> "issueBook", userId |-> userId, bookId |-> bookId,
                 dueDate |-> dueDate, role |-> user.role]
       IN IF user.status # "active"
          THEN Respond(p, Fail("issueBook", 400, "User account is not active",
                               [userId |-> userId, bookId |-> bookId]))
          ELSE Goto(p, "issue_findBook", l)
  /\ UNCHANGED <<store, now, serial>>

IssueBook_findBook(p) ==
  /\ pc[p] = "issue_findBook"
  /\ LET l == loc[p]
         book == books[l.bookId]
     IN IF book.availableCopies <= 0 \/ book.status # "available"
        THEN Respond(p, Fail("issueBook", 400, "Book is not available for borrowing",
                             [userId |-> l.userId, bookId |-> l.bookId]))
        ELSE Goto(p, "issue_findExisting", l @@ [book |-> book])
  /\ UNCHANGED <<store, now, pre, prev, serial, budget>>

IssueBook_findExisting(p) ==
  /\ pc[p] = "issue_findExisting"
  /\ LET l == loc[p]
     IN IF IssuedLoansOf(transactions, l.userId, l.bookId) # {}
        THEN Respond(p, Fail("issueBook", 400, "User already has this book issued",
                             [userId |-> l.userId, bookId |-> l.bookId]))
        ELSE Goto(p, "issue_countActive", l)
  /\ UNCHANGED <<store, now, pre, prev, serial, budget>>

IssueBook_countActive(p) ==
  /\ pc[p] = "issue_countActive"
  /\ LET l == loc[p]
         activeTransactions == Cardinality(IssuedLoans(transactions, l.userId))
     IN IF activeTransactions >= BorrowingLimit(l.role)
        THEN Respond(p, Fail("issueBook", 400, "User has reached the borrowing limit",
                             [userId |-> l.userId, bookId |-> l.bookId]))
        ELSE Goto(p, "issue_findFines", l)
  /\ UNCHANGED <<store, now, pre, prev, serial, budget>>

IssueBook_findFines(p) ==
  /\ pc[p] = "issue_findFines"
  /\ LET l == loc[p]
     IN IF PendingFines(fines, l.userId) # {}
        THEN Respond(p, Fail("issueBook", 400, "User has outstanding fines",
                             [userId |-> l.userId, bookId |-> l.bookId]))
        ELSE Goto(p, "issue_create", l @@ [issueDate |-> now])
  /\ UNCHANGED <<store, now, pre, prev, serial, budget>>

IssueBook_create(p) ==
  /\ pc[p] = "issue_create"
  /\ LET l == loc[p]
         doc == Loan(l.userId, l.bookId, l.issueDate, l.dueDate)
     IN /\ transactions' = Append(transactions, doc)
        /\ Goto(p, "issue_saveBook", l @@ [txId |-> Len(transactions) + 1])
  /\ UNCHANGED <<users, books, fines, reservations, now, pre, prev, serial, budget>>

IssueBook_saveBook(p) ==
  /\ pc[p] = "issue_saveBook"
  /\ LET l == loc[p]
         doc == DecrementAvailable(l.book)
     IN IF BookValid(doc)
        THEN /\ books' = [books EXCEPT ![l.bookId] = BookWrite(@, l.book, doc)]
             /\ Respond(p, [op |-> "issueBook", success |-> TRUE, code |-> 201,
                            txId |-> l.txId, userId |-> l.userId, bookId |-> l.bookId])
        ELSE /\ UNCHANGED books
             /\ Respond(p, Fail("issueBook", 500, "Available copies cannot exceed total copies",
                             [userId |-> l.userId, bookId |-> l.bookId]))
  /\ UNCHANGED <<users, transactions, fines, reservations, now, pre, prev, serial, budget>>

----------------------------------------------------------------------------
\* returnBook: PUT /api/transactions/:id/return

ReturnBook_find(p) ==
  /\ Begin(p)
  /\ \E txId \in DOMAIN transactions :
       LET transaction == transactions[txId]
           returnDate == now
           fineAmount == LateFine(returnDate, transaction.dueDate)
           l == [op |-> "returnBook", txId |-> txId, transaction |-> transaction,
                 returnDate |-> returnDate, fineAmount |-> fineAmount]
       IN IF IsNotIssued(transaction)
          THEN Respond(p, Fail("returnBook", 400, "Book is not currently issued", [txId |-> txId]))
          ELSE IF IsOverdue(returnDate, transaction.dueDate)
               THEN Goto(p, "return_createFine", l)
               ELSE Goto(p, "return_saveTx", l)
  /\ UNCHANGED <<store, now, serial>>

ReturnBook_createFine(p) ==
  /\ pc[p] = "return_createFine"
  /\ LET l == loc[p]
     IN /\ fines' = Append(fines, NewFine(l.transaction.userId, l.txId, l.fineAmount, "overdue"))
        /\ Goto(p, "return_saveTx", l)
  /\ UNCHANGED <<users, books, transactions, reservations, now, pre, prev, serial, budget>>

ReturnBook_saveTx(p) ==
  /\ pc[p] = "return_saveTx"
  /\ LET l == loc[p]
         doc == [l.transaction EXCEPT !.returnDate = l.returnDate, !.status = "returned",
                                      !.fineAmount = l.fineAmount, !.notes = <<>>]
     IN IF TxValid(doc)
        THEN /\ transactions' = [transactions EXCEPT ![l.txId] =
                  [@ EXCEPT !.returnDate = doc.returnDate, !.status = doc.status,
                            !.fineAmount = IF doc.fineAmount # l.transaction.fineAmount
                                           THEN doc.fineAmount ELSE @,
                            !.notes = IF doc.notes # l.transaction.notes
                                      THEN doc.notes ELSE @]]
             /\ Goto(p, "return_findBook", l)
        ELSE /\ UNCHANGED transactions
             /\ Respond(p, Fail("returnBook", 500, "Return date cannot be before issue date",
                             [txId |-> l.txId]))
  /\ UNCHANGED <<users, books, fines, reservations, now, pre, prev, serial, budget>>

ReturnBook_findBook(p) ==
  /\ pc[p] = "return_findBook"
  /\ Goto(p, "return_saveBook", loc[p] @@ [book |-> books[loc[p].transaction.bookId]])
  /\ UNCHANGED <<store, now, pre, prev, serial, budget>>

ReturnBook_saveBook(p) ==
  /\ pc[p] = "return_saveBook"
  /\ LET l == loc[p]
         bookId == l.transaction.bookId
         doc == IncrementAvailable(l.book)
     IN IF BookValid(doc)
        THEN /\ books' = [books EXCEPT ![bookId] = BookWrite(@, l.book, doc)]
             /\ Respond(p, [op |-> "returnBook", success |-> TRUE, code |-> 200,
                            txId |-> l.txId, bookId |-> bookId,
                            fineAmount |-> l.fineAmount])
        ELSE /\ UNCHANGED books
             /\ Respond(p, Fail("returnBook", 500, "Available copies cannot exceed total copies",
                             [txId |-> l.txId]))
  /\ UNCHANGED <<users, transactions, fines, reservations, now, pre, prev, serial, budget>>

----------------------------------------------------------------------------
\* A body field is <<>> when absent (undefined) and <<n>> when given.
Given(field, old) == IF field # <<>> THEN field[1] ELSE old

\* extendDueDate: PUT /api/transactions/:id/extend
\* newDueDate is <<>> when absent and <<d>> when given; nothing compares it
\* with the old due date or with the clock.
NewDueDates == {<<>>, <<3>>}

ExtendDueDate_find(p) ==
  /\ Begin(p)
  /\ \E txId \in DOMAIN transactions, newDueDate \in NewDueDates :
       LET transaction == transactions[txId]
           doc == [transaction EXCEPT !.dueDate = Given(newDueDate, NoDate),
                                      !.notes = Append(@, "Due date extended")]
       IN IF IsNotIssued(transaction)
          THEN Respond(p, Fail("extendDueDate", 400, "Can only extend due date for issued books",
                               [txId |-> txId]))
          ELSE Goto(p, "extend_save", [op |-> "extendDueDate", txId |-> txId,
                                       transaction |-> transaction, doc |-> doc])
  /\ UNCHANGED <<store, now, serial>>

ExtendDueDate_save(p) ==
  /\ pc[p] = "extend_save"
  /\ LET l == loc[p]
     IN IF TxRequired(l.doc) /\ TxValid(l.doc)
        THEN /\ transactions' = [transactions EXCEPT ![l.txId] =
                  [@ EXCEPT !.dueDate = IF l.doc.dueDate # l.transaction.dueDate
                                        THEN l.doc.dueDate ELSE @,
                            !.notes = l.doc.notes]]
             /\ Respond(p, [op |-> "extendDueDate", success |-> TRUE, code |-> 200,
                            txId |-> l.txId, newDueDate |-> l.doc.dueDate])
        ELSE /\ UNCHANGED transactions
             /\ Respond(p, Fail("extendDueDate", 500, "validation failed", [txId |-> l.txId]))
  /\ UNCHANGED <<users, books, fines, reservations, now, pre, prev, serial, budget>>

ExtendDueDate(p) == ExtendDueDate_find(p) \/ ExtendDueDate_save(p)

----------------------------------------------------------------------------
\* createFine: POST /api/fines
\* (User.findById and Transaction.findById only test existence of documents
\*  that are never removed; the ids are drawn from the stored ones.)

CreateFine_find(p) ==
  /\ Begin(p)
  /\ \E userId \in DOMAIN users, txId \in DOMAIN transactions,
        amount \in FineAmounts, reason \in FineReasons :
       Goto(p, "fine_findExisting",
            [op |-> "createFine", userId |-> userId, txId |-> txId,
             amount |-> amount, reason |-> reason])
  /\ UNCHANGED <<store, now, serial>>

CreateFine_findExisting(p) ==
  /\ pc[p] = "fine_findExisting"
  /\ LET l == loc[p]
     IN IF FinesOfTx(fines, l.txId) # {}
        THEN Respond(p, Fail("createFine", 400, "Fine already exists for this transaction",
                             [txId |-> l.txId]))
        ELSE Goto(p, "fine_create", l)
  /\ UNCHANGED <<store, now, pre, prev, serial, budget>>

CreateFine_create(p) ==
  /\ pc[p] = "fine_create"
  /\ LET l == loc[p]
     IN /\ fines' = Append(fines, NewFine(l.userId, l.txId, l.amount, l.reason))
        /\ Respond(p, [op |-> "createFine", success |-> TRUE, code |-> 201,
                       fineId |-> Len(fines) + 1, txId |-> l.txId])
  /\ UNCHANGED <<users, books, transactions, reservations, now, pre, prev, serial, budget>>

\* fine.save(): the pre('save') hook, then $set of the modified paths.
FineWrite(stored, loaded, doc) ==
  [stored EXCEPT
     !.paymentStatus = IF doc.paymentStatus # loaded.paymentStatus
                       THEN doc.paymentStatus ELSE @,
     !.paymentDate = IF doc.paymentDate # loaded.paymentDate THEN doc.paymentDate ELSE @,
     !.processed = IF doc.processed # loaded.processed THEN doc.processed ELSE @,
     !.amount = IF doc.amount # loaded.amount THEN doc.amount ELSE @,
     !.reason = IF doc.reason # loaded.reason THEN doc.reason ELSE @]

\* fine.paymentStatus === 'waived'
IsWaivedIgnored(fine) == FALSE

IsWaived(fine) == fine.paymentStatus = "waived"

\* processFinePayment: PUT /api/fines/:id/pay
ProcessFinePayment_find(p) ==
  /\ Begin(p)
  /\ \E fineId \in DOMAIN fines :
       LET fine == fines[fineId]
           doc == [fine EXCEPT !.paymentStatus = "paid", !.paymentDate = now,
                               !.processed = TRUE]
       IN IF fine = NoFine
          THEN Respond(p, Fail("processFinePayment", 404, "Fine not found", [fineId |-> fineId]))
          ELSE IF fine.paymentStatus = "paid"
          THEN Respond(p, Fail("processFinePayment", 400, "Fine is already paid", [fineId |-> fineId]))
          ELSE IF IsWaived(fine)
               THEN Respond(p, Fail("processFinePayment", 400, "Fine has been waived", [fineId |-> fineId]))
               ELSE Goto(p, "pay_save", [op |-> "processFinePayment", fineId |-> fineId,
                                         fine |-> fine, doc |-> doc])
  /\ UNCHANGED <<store, now, serial>>

ProcessFinePayment_save(p) ==
  /\ pc[p] = "pay_save"
  /\ LET l == loc[p]
     IN /\ fines' = [fines EXCEPT ![l.fineId] = FineWrite(@, l.fine, FinePreSave(l.doc, now))]
        /\ Respond(p, [op |-> "processFinePayment", success |-> TRUE, code |-> 200,
                       fineId |-> l.fineId])
  /\ UNCHANGED <<users, books, transactions, reservations, now, pre, prev, serial, budget>>

\* waiveFine: PUT /api/fines/:id/waive
WaiveFine_find(p) ==
  /\ Begin(p)
  /\ \E fineId \in DOMAIN fines :
       LET fine == fines[fineId]
           doc == [fine EXCEPT !.paymentStatus = "waived", !.processed = TRUE]
       IN IF fine = NoFine
          THEN Respond(p, Fail("waiveFine", 404, "Fine not found", [fineId |-> fineId]))
          ELSE IF fine.paymentStatus = "paid"
          THEN Respond(p, Fail("waiveFine", 400, "Cannot waive a paid fine", [fineId |-> fineId]))
          ELSE IF IsWaived(fine)
               THEN Respond(p, Fail("waiveFine", 400, "Fine is already waived", [fineId |-> fineId]))
               ELSE Goto(p, "waive_save", [op |-> "waiveFine", fineId |-> fineId,
                                           fine |-> fine, doc |-> doc])
  /\ UNCHANGED <<store, now, serial>>

WaiveFine_save(p) ==
  /\ pc[p] = "waive_save"
  /\ LET l == loc[p]
     IN /\ fines' = [fines EXCEPT ![l.fineId] = FineWrite(@, l.fine, FinePreSave(l.doc, now))]
        /\ Respond(p, [op |-> "waiveFine", success |-> TRUE, code |-> 200,
                       fineId |-> l.fineId])
  /\ UNCHANGED <<users, books, transactions, reservations, now, pre, prev, serial, budget>>

\* updateFine: PUT /api/fines/:id
\* amount is <<>> when absent and <<n>> when given; reason likewise (an empty
\* reason counts as absent: reason || fine.reason).
AmountInputs == {<<>>, <<0 - 1>>, <<7>>}

ReasonInputs == {<<>>, <<"lost">>, <<"unknown">>}

UpdateFine_find(p) ==
  /\ Begin(p)
  /\ \E fineId \in DOMAIN fines, amount \in AmountInputs, reason \in ReasonInputs :
       LET fine == fines[fineId]
           doc == [fine EXCEPT !.amount = Given(amount, @), !.reason = Given(reason, @)]
       IN IF fine = NoFine
          THEN Respond(p, Fail("updateFine", 404, "Fine not found", [fineId |-> fineId]))
          ELSE IF fine.paymentStatus = "paid"
          THEN Respond(p, Fail("updateFine", 400, "Cannot update a paid fine", [fineId |-> fineId]))
          ELSE Goto(p, "update_save", [op |-> "updateFine", fineId |-> fineId,
                                       fine |-> fine, doc |-> doc])
  /\ UNCHANGED <<store, now, serial>>

UpdateFine_save(p) ==
  /\ pc[p] = "update_save"
  /\ LET l == loc[p]
     IN IF FineValid(l.doc)
        THEN /\ fines' = [fines EXCEPT ![l.fineId] = FineWrite(@, l.fine, FinePreSave(l.doc, now))]
             /\ Respond(p, [op |-> "updateFine", success |-> TRUE, code |-> 200,
                            fineId |-> l.fineId])
        ELSE /\ UNCHANGED fines
             /\ Respond(p, Fail("updateFine", 500, "validation failed", [fineId |-> l.fineId]))
  /\ UNCHANGED <<users, books, transactions, reservations, now, pre, prev, serial, budget>>

\* deleteFine: DELETE /api/fines/:id
DeleteFine_find(p) ==
  /\ Begin(p)
  /\ \E fineId \in DOMAIN fines :
       LET fine == fines[fineId]
       IN IF fine = NoFine
          THEN Respond(p, Fail("deleteFine", 404, "Fine not found", [fineId |-> fineId]))
          ELSE IF fine.paymentStatus = "paid"
          THEN Respond(p, Fail("deleteFine", 400, "Cannot delete a paid fine", [fineId |-> fineId]))
          ELSE Goto(p, "delete_remove", [op |-> "deleteFine", fineId |-> fineId])
  /\ UNCHANGED <<store, now, serial>>

DeleteFine_remove(p) ==
  /\ pc[p] = "delete_remove"
  /\ LET l == loc[p]
     IN /\ fines' = [fines EXCEPT ![l.fineId] = NoFine]
        /\ Respond(p, [op |-> "deleteFine", success |-> TRUE, code |-> 200,
                       fineId |-> l.fineId])
  /\ UNCHANGED <<users, books, transactions, reservations, now, pre, prev, serial, budget>>

----------------------------------------------------------------------------
\* updateBookAvailability: PUT /api/books/:id/availability

UpdateBookAvailability_find(p) ==
  /\ Begin(p)
  /\ \E bookId \in DOMAIN books, totalCopies \in CopyInputs, availableCopies \in CopyInputs :
       LET book == books[bookId]
           doc == [book EXCEPT !.totalCopies = Given(totalCopies, @),
                               !.availableCopies = Given(availableCopies, @)]
       IN Goto(p, "avail_save", [op |-> "updateBookAvailability", bookId |-> bookId,
                                 book |-> book, doc |-> doc,
                                 body |-> [totalCopies |-> totalCopies,
                                           availableCopies |-> availableCopies]])
  /\ UNCHANGED <<store, now, serial>>

UpdateBookAvailability_save(p) ==
  /\ pc[p] = "avail_save"
  /\ LET l == loc[p]
     IN IF BookValid(l.doc)
        THEN /\ books' = [books EXCEPT ![l.bookId] = BookWrite(@, l.book, l.doc)]
             /\ Respond(p, [op |-> "updateBookAvailability", success |-> TRUE, code |-> 200,
                            bookId |-> l.bookId, totalCopies |-> l.doc.totalCopies,
                            availableCopies |-> l.doc.availableCopies, body |-> l.body])
        ELSE /\ UNCHANGED books
             /\ Respond(p, Fail("updateBookAvailability", 500, "validation failed",
                             [bookId |-> l.bookId, body |-> l.body]))
  /\ UNCHANGED <<users, transactions, fines, reservations, now, pre, prev, serial, budget>>

\* updateBook: PUT /api/books/:id (the copy counts and the status; the catalog
\* fields and their isbn / authors / categories look-ups are left out).
UpdateBook_find(p) ==
  /\ Begin(p)
  /\ \E bookId \in DOMAIN books, totalCopies \in CopyInputs, availableCopies \in CopyInputs,
        status \in StatusInputs :
       LET book == books[bookId]
           doc == [book EXCEPT !.totalCopies = Given(totalCopies, @),
                               !.availableCopies = Given(availableCopies, @),
                               !.status = Given(status, @)]
       IN Goto(p, "book_save", [op |-> "updateBook", bookId |-> bookId,
                                book |-> book, doc |-> doc])
  /\ UNCHANGED <<store, now, serial>>

UpdateBook_save(p) ==
  /\ pc[p] = "book_save"
  /\ LET l == loc[p]
     IN IF BookValid(l.doc)
        THEN /\ books' = [books EXCEPT ![l.bookId] = BookWrite(@, l.book, l.doc)]
             /\ Respond(p, [op |-> "updateBook", success |-> TRUE, code |-> 200,
                            bookId |-> l.bookId])
        ELSE /\ UNCHANGED books
             /\ Respond(p, Fail("updateBook", 500, "validation failed", [bookId |-> l.bookId]))
  /\ UNCHANGED <<users, transactions, fines, reservations, now, pre, prev, serial, budget>>

----------------------------------------------------------------------------
\* Reservation documents.

BorrowerReservationLimit == 3
StaffReservationLimit == 5

ReservationLimit(role) ==
  IF role = "borrower" THEN BorrowerReservationLimit ELSE StaffReservationLimit

IsActiveFor(r, bookId) == r.bookId = bookId /\ r.status = "active"

ActiveForBook(rs, bookId) == {i \in DOMAIN rs : IsActiveFor(rs[i], bookId)}

ActiveOfUser(rs, userId) == {i \in DOMAIN rs : rs[i].userId = userId /\ rs[i].status = "active"}

\* A new reservation: the schema defaults give status active; reservationDate is
\* Date.now at construction, and stamp orders the stamps taken within one tick.
Reservation(userId, bookId, date, stamp, expiryDate, priority) ==
  [userId |-> userId, bookId |-> bookId, reservationDate |-> date, stamp |-> stamp,
   expiryDate |-> expiryDate, status |-> "active", priority |-> priority,
   fulfilledBy |-> 0, fulfilledDate |-> NoDate]

\* pre('save') hook of the reservation schema.
ReservationValid(doc) == ~(doc.expiryDate <= doc.reservationDate)

\* The partial unique index on (userId, bookId, status) for status active.
UniqueActiveNotEnforced(rs, doc) == TRUE

UniqueActive(rs, doc) ==
  ~\E i \in DOMAIN rs : /\ rs[i].status = "active"
                        /\ rs[i].userId = doc.userId
                        /\ rs[i].bookId = doc.bookId

\* countDocuments({ bookId, status: 'active' }) + 1
QueuePositionAnyStatus(rs, bookId) ==
  Cardinality({i \in DOMAIN rs : rs[i].bookId = bookId}) + 1

QueuePosition(rs, bookId) == Cardinality(ActiveForBook(rs, bookId)) + 1

\* .sort({ reservationDate: 1 })
Earlier(a, b) ==
  \/ a.reservationDate < b.reservationDate
  \/ a.reservationDate = b.reservationDate /\ a.stamp < b.stamp

RECURSIVE SortByReservationDate(_, _)
SortByReservationDate(rs, ids) ==
  IF ids = {} THEN <<>>
  ELSE LET first == CHOOSE i \in ids : \A j \in ids \ {i} : Earlier(rs[i], rs[j])
       IN <<first>> \o SortByReservationDate(rs, ids \ {first})

----------------------------------------------------------------------------
\* createReservation: POST /api/reservations

CreateReservation_findBook(p) ==
  /\ Begin(p)
  /\ \E userId \in DOMAIN users, bookId \in DOMAIN books, expiryDate \in ExpiryDates :
       LET book == books[bookId]
           l == [op |-> "createReservation", userId |-> userId, bookId |-> bookId,
                 expiryDate |-> expiryDate, role |-> users[userId].role]
       IN IF book.availableCopies > 0 /\ book.status = "available"
          THEN Respond(p, Fail("createReservation", 400, "Book is currently available",
                               [userId |-> userId, bookId |-> bookId]))
          ELSE Goto(p, "reserve_findExisting", l)
  /\ UNCHANGED <<store, now, serial>>

CreateReservation_findExisting(p) ==
  /\ pc[p] = "reserve_findExisting"
  /\ LET l == loc[p]
     IN IF ActiveForBook(reservations, l.bookId) \cap ActiveOfUser(reservations, l.userId) # {}
        THEN Respond(p, Fail("createReservation", 400, "You already have an active reservation",
                             [userId |-> l.userId, bookId |-> l.bookId]))
        ELSE Goto(p, "reserve_findIssued", l)
  /\ UNCHANGED <<store, now, pre, prev, serial, budget>>

CreateReservation_findIssued(p) ==
  /\ pc[p] = "reserve_findIssued"
  /\ LET l == loc[p]
     IN IF IssuedLoansOf(transactions, l.userId, l.bookId) # {}
        THEN Respond(p, Fail("createReservation", 400, "You currently have this book issued",
                             [userId |-> l.userId, bookId |-> l.bookId]))
        ELSE Goto(p, "reserve_countUser", l)
  /\ UNCHANGED <<store, now, pre, prev, serial, budget>>

CreateReservation_countUser(p) ==
  /\ pc[p] = "reserve_countUser"
  /\ LET l == loc[p]
         activeReservations == Cardinality(ActiveOfUser(reservations, l.userId))
     IN IF activeReservations >= ReservationLimit(l.role)
        THEN Respond(p, Fail("createReservation", 400, "You have reached the reservation limit",
                             [userId |-> l.userId, bookId |-> l.bookId]))
        ELSE Goto(p, "reserve_countBook", l)
  /\ UNCHANGED <<store, now, pre, prev, serial, budget>>

CreateReservation_countBook(p) ==
  /\ pc[p] = "reserve_countBook"
  /\ LET l == loc[p]
         queuePosition == QueuePosition(reservations, l.bookId)
         doc == Reservation(l.userId, l.bookId, now, serial + 1, l.expiryDate, queuePosition)
     IN Goto(p, "reserve_create", l @@ [queuePosition |-> queuePosition, doc |-> doc])
  /\ serial' = serial + 1
  /\ UNCHANGED <<store, now, pre, prev, budget>>

CreateReservation_create(p) ==
  /\ pc[p] = "reserve_create"
  /\ LET l == loc[p]
     IN IF ReservationValid(l.doc) /\ UniqueActive(reservations, l.doc)
        THEN /\ reservations' = Append(reservations, l.doc)
             /\ Respond(p, [op |-> "createReservation", success |-> TRUE, code |-> 201,
                            resId |-> Len(reservations) + 1, userId |-> l.userId,
                            bookId |-> l.bookId, queuePosition |-> l.queuePosition])
        ELSE /\ UNCHANGED reservations
             /\ Respond(p, Fail("createReservation", 500, "validation or duplicate key error",
                                [userId |-> l.userId, bookId |-> l.bookId]))
  /\ UNCHANGED <<users, books, transactions, fines, now, pre, prev, serial, budget>>

----------------------------------------------------------------------------
\* updateReservationPriorities(bookId), entered with the response to send in loc.

\* reservation.save(): $set of the modified paths.
ReservationWrite(stored, loaded, doc) ==
  [stored EXCEPT
     !.status = IF doc.status # loaded.status THEN doc.status ELSE @,
     !.priority = IF doc.priority # loaded.priority THEN doc.priority ELSE @,
     !.fulfilledBy = IF doc.fulfilledBy # loaded.fulfilledBy THEN doc.fulfilledBy ELSE @,
     !.fulfilledDate = IF doc.fulfilledDate # loaded.fulfilledDate
                       THEN doc.fulfilledDate ELSE @]

UpdateReservationPriorities_find(p) ==
  /\ pc[p] = "rerank_find"
  /\ LET l == loc[p]
         ids == SortByReservationDate(reservations, ActiveForBook(reservations, l.bookId))
         activeReservations == [i \in DOMAIN ids |-> [id |-> ids[i], doc |-> reservations[ids[i]]]]
     IN IF Len(activeReservations) = 0
        THEN Respond(p, l.done)
        ELSE Goto(p, "rerank_save", l @@ [activeReservations |-> activeReservations, i |-> 0])
  /\ UNCHANGED <<store, now, pre, prev, serial, budget>>

UpdateReservationPriorities_save(p) ==
  /\ pc[p] = "rerank_save"
  /\ LET l == loc[p]
         entry == l.activeReservations[l.i + 1]
         doc == [entry.doc EXCEPT !.priority = l.i + 1]
     IN IF ReservationValid(doc)
        THEN /\ reservations' = [reservations EXCEPT ![entry.id] =
                                   ReservationWrite(@, entry.doc, doc)]
             /\ IF l.i + 1 < Len(l.activeReservations)
                THEN Goto(p, "rerank_save", [l EXCEPT !.i = l.i + 1])
                ELSE Respond(p, l.done)
        ELSE /\ UNCHANGED reservations
             /\ Respond(p, Fail(l.op, 500, "Expiry date must be after reservation date",
                                [resId |-> l.resId]))
  /\ UNCHANGED <<users, books, transactions, fines, now, pre, prev, serial, budget>>

----------------------------------------------------------------------------
\* cancelReservation: PUT /api/reservations/:id/cancel

CancelReservation_find(p) ==
  /\ Begin(p)
  /\ \E resId \in DOMAIN reservations, actor \in DOMAIN users :
       LET reservation == reservations[resId]
           isOwner == reservation.userId = actor
           isStaff == users[actor].role \in {"admin", "librarian"}
           doc == [reservation EXCEPT !.status = "cancelled"]
       IN IF ~isOwner /\ ~isStaff
          THEN Respond(p, Fail("cancelReservation", 403, "Access denied", [resId |-> resId]))
          ELSE IF reservation.status # "active"
               THEN Respond(p, Fail("cancelReservation", 400,
                                    "Can only cancel active reservations", [resId |-> resId]))
               ELSE Goto(p, "cancel_save",
                         [op |-> "cancelReservation", resId |-> resId,
                          bookId |-> reservation.bookId, reservation |-> reservation,
                          doc |-> doc])
  /\ UNCHANGED <<store, now, serial>>

CancelReservation_save(p) ==
  /\ pc[p] = "cancel_save"
  /\ LET l == loc[p]
         done == [op |-> "cancelReservation", success |-> TRUE, code |-> 200,
                  resId |-> l.resId, bookId |-> l.bookId]
     IN IF ReservationValid(l.doc)
        THEN /\ reservations' = [reservations EXCEPT ![l.resId] =
                                   ReservationWrite(@, l.reservation, l.doc)]
             /\ Goto(p, "rerank_find", l @@ [done |-> done])
        ELSE /\ UNCHANGED reservations
             /\ Respond(p, Fail("cancelReservation", 500,
                                "Expiry date must be after reservation date",
                                [resId |-> l.resId]))
  /\ UNCHANGED <<users, books, transactions, fines, now, pre, prev, serial, budget>>

----------------------------------------------------------------------------
\* fulfillReservation: PUT /api/reservations/:id/fulfill (staff)

\* if (book.availableCopies <= 0)
NotYetAvailableNegative(book) == book.availableCopies < 0

NotYetAvailable(book) == book.availableCopies <= 0

FulfillReservation_find(p) ==
  /\ Begin(p)
  /\ \E resId \in DOMAIN reservations, staff \in StaffOf(users) :
       LET reservation == reservations[resId]
       IN IF reservation.status # "active"
          THEN Respond(p, Fail("fulfillReservation", 400,
                               "Can only fulfill active reservations", [resId |-> resId]))
          ELSE Goto(p, "fulfill_findBook",
                    [op |-> "fulfillReservation", resId |-> resId, staff |-> staff,
                     bookId |-> reservation.bookId, reservation |-> reservation])
  /\ UNCHANGED <<store, now, serial>>

FulfillReservation_findBook(p) ==
  /\ pc[p] = "fulfill_findBook"
  /\ LET l == loc[p]
         book == books[l.bookId]
         doc == [l.reservation EXCEPT !.status = "fulfilled", !.fulfilledBy = l.staff,
                                     !.fulfilledDate = now]
     IN IF NotYetAvailable(book)
        THEN Respond(p, Fail("fulfillReservation", 400, "Book is not available",
                             [resId |-> l.resId]))
        ELSE Goto(p, "fulfill_save", l @@ [doc |-> doc])
  /\ UNCHANGED <<store, now, pre, prev, serial, budget>>

FulfillReservation_save(p) ==
  /\ pc[p] = "fulfill_save"
  /\ LET l == loc[p]
         done == [op |-> "fulfillReservation", success |-> TRUE, code |-> 200,
                  resId |-> l.resId, bookId |-> l.bookId]
     IN IF ReservationValid(l.doc)
        THEN /\ reservations' = [reservations EXCEPT ![l.resId] =
                                   ReservationWrite(@, l.reservation, l.doc)]
             /\ Goto(p, "rerank_find", l @@ [done |-> done])
        ELSE /\ UNCHANGED reservations
             /\ Respond(p, Fail("fulfillReservation", 500,
                                "Expiry date must be after reservation date",
                                [resId |-> l.resId]))
  /\ UNCHANGED <<users, books, transactions, fines, now, pre, prev, serial, budget>>

----------------------------------------------------------------------------
\* autoExpireReservations: PUT /api/reservations/auto-expire
\* One updateMany({status: 'active', expiryDate: {$lt: new Date()}},
\*                {status: 'expired', updatedAt: new Date()}).

ExpiryFilterAnyStatus(r, date) == r.expiryDate < date

ExpiryFilter(r, date) == r.status = "active" /\ r.expiryDate < date

ExpiryUpdate(r) == [r EXCEPT !.status = "expired"]

AutoExpireReservations(p) ==
  /\ Begin(p)
  /\ LET matched == {i \in DOMAIN reservations : ExpiryFilter(reservations[i], now)}
     IN /\ reservations' = [i \in DOMAIN reservations |->
                              IF i \in matched THEN ExpiryUpdate(reservations[i])
                              ELSE reservations[i]]
        /\ Respond(p, [op |-> "autoExpireReservations", success |-> TRUE, code |-> 200,
                       expiredCount |-> Cardinality(matched)])
  /\ UNCHANGED <<users, books, transactions, fines, now, serial>>

----------------------------------------------------------------------------
\* Time passes.  A tick is a fraction 1/DayLen of a day and a request takes
\* milliseconds: the clock is advanced between requests.
Tick ==
  /\ \A p \in Procs : pc[p] = "idle"
  /\ now < MaxTime
  /\ now' = now + 1
  /\ UNCHANGED <<store, pc, loc, resp, pre, prev, serial, budget>>

----------------------------------------------------------------------------
InitUsers ==
  users = (1 :> [status |-> "active", role |-> "borrower"])
       @@ (2 :> [status |-> "active", role |-> "librarian"])

InitWorkers(requests) ==
  /\ pc = [p \in Procs |-> "idle"]
  /\ loc = [p \in Procs |-> Idle]
  /\ resp = Idle
  /\ budget = requests
  /\ now = 0
  /\ serial = 0

\* The catalog: book 1 has a single copy.  Either nothing is on loan yet, or
\* user 1 was issued book 1 at time 0 (the state issueBook leaves behind).
InitBooks ==
  \/ /\ books = (1 :> Book(1, 1)) @@ (2 :> Book(MaxCopies, MaxCopies))
     /\ transactions = <<>>
  \/ /\ books = (1 :> Book(1, 0)) @@ (2 :> Book(MaxCopies, MaxCopies))
     /\ transactions = <<Loan(1, 1, 0, 1)>>

InitCirc ==
  /\ InitUsers
  /\ InitBooks
  /\ fines = <<>>
  /\ reservations = <<>>
  /\ InitWorkers(MaxReqs)
  /\ pre = Db
  /\ prev = [resp |-> Idle, pre |-> Db]

IssueBook(p) ==
  \/ IssueBook_findUser(p)
  \/ IssueBook_findBook(p)
  \/ IssueBook_findExisting(p)
  \/ IssueBook_countActive(p)
  \/ IssueBook_findFines(p)
  \/ IssueBook_create(p)
  \/ IssueBook_saveBook(p)

ReturnBook(p) ==
  \/ ReturnBook_find(p)
  \/ ReturnBook_createFine(p)
  \/ ReturnBook_saveTx(p)
  \/ ReturnBook_findBook(p)
  \/ ReturnBook_saveBook(p)

CreateFine(p) ==
  \/ CreateFine_find(p)
  \/ CreateFine_findExisting(p)
  \/ CreateFine_create(p)

ProcessFinePayment(p) == ProcessFinePayment_find(p) \/ ProcessFinePayment_save(p)

WaiveFine(p) == WaiveFine_find(p) \/ WaiveFine_save(p)

UpdateBookAvailability(p) == UpdateBookAvailability_find(p) \/ UpdateBookAvailability_save(p)

UpdateBook(p) == UpdateBook_find(p) \/ UpdateBook_save(p)

\* Circulation and fines, one request at a time.
NextCirc ==
  \/ IssueBook(1)
  \/ ReturnBook(1)
  \/ CreateFine(1)
  \/ ProcessFinePayment(1)
  \/ WaiveFine(1)
  \/ Tick

SpecCirc == InitCirc /\ [][NextCirc]_vars

\* The copy ledger under concurrent requests.
InitLedger ==
  /\ InitUsers
  /\ InitBooks
  /\ fines = <<>>
  /\ reservations = <<>>
  /\ InitWorkers(MaxConcReqs)
  /\ pre = Db
  /\ prev = [resp |-> Idle, pre |-> Db]

NextIssue == Tick \/ \E p \in Procs : IssueBook(p) \/ ReturnBook(p)

SpecIssue == InitLedger /\ [][NextIssue]_vars

NextLedger ==
  \/ Tick
  \/ \E p \in Procs : IssueBook(p) \/ ReturnBook(p) \/ UpdateBookAvailability(p) \/ UpdateBook(p)

SpecLedger == InitLedger /\ [][NextLedger]_vars

CreateReservation(p) ==
  \/ CreateReservation_findBook(p)
  \/ CreateReservation_findExisting(p)
  \/ CreateReservation_findIssued(p)
  \/ CreateReservation_countUser(p)
  \/ CreateReservation_countBook(p)
  \/ CreateReservation_create(p)

UpdateReservationPriorities(p) ==
  UpdateReservationPriorities_find(p) \/ UpdateReservationPriorities_save(p)

CancelReservation(p) ==
  CancelReservation_find(p) \/ CancelReservation_save(p)

FulfillReservation(p) ==
  FulfillReservation_find(p) \/ FulfillReservation_findBook(p) \/ FulfillReservation_save(p)

\* The reservation queue, one request at a time.  User 2 holds the only copy of
\* book 1; book 2 has its copy on the shelf but was taken out of lending (status
\* unavailable, by updateBook).
InitRes ==
  /\ InitUsers
  /\ books = (1 :> Book(1, 0)) @@ (2 :> [Book(1, 1) EXCEPT !.status = "unavailable"])
  /\ transactions = <<Loan(2, 1, 0, 1)>>
  /\ fines = <<>>
  /\ reservations = <<>>
  /\ InitWorkers(MaxReqs)
  /\ pre = Db
  /\ prev = [resp |-> Idle, pre |-> Db]

NextRes ==
  \/ CreateReservation(1)
  \/ CancelReservation(1)
  \/ FulfillReservation(1)
  \/ UpdateReservationPriorities(1)
  \/ AutoExpireReservations(1)
  \/ Tick

SpecRes == InitRes /\ [][NextRes]_vars

\* A longer queue, one request at a time: three borrowers and a librarian who
\* holds the only copy of book 1.  Either nobody has reserved yet, or the clock
\* is at 2 and the queue of book 1 is what three createReservation requests at
\* time 0 (users 1, 2, 3; the first two with expiryDate 1) followed by
\* autoExpireReservations at time 2 leave behind.
InitQueueUsers ==
  users = [u \in 1 .. 4 |->
             [status |-> "active", role |-> IF u = 4 THEN "librarian" ELSE "borrower"]]

InitQueue ==
  /\ InitQueueUsers
  /\ books = (1 :> Book(1, 0)) @@ (2 :> [Book(1, 1) EXCEPT !.status = "unavailable"])
  /\ transactions = <<Loan(4, 1, 0, 1)>>
  /\ fines = <<>>
  /\ pc = [p \in Procs |-> "idle"]
  /\ loc = [p \in Procs |-> Idle]
  /\ resp = Idle
  /\ budget = MaxReqs
  /\ \/ /\ reservations = <<>>
        /\ now = 0
        /\ serial = 0
     \/ /\ reservations =
             << [Reservation(1, 1, 0, 1, 1, 1) EXCEPT !.status = "expired"],
                [Reservation(2, 1, 0, 2, 1, 2) EXCEPT !.status = "expired"],
                Reservation(3, 1, 0, 3, 2, 3) >>
        /\ now = 2
        /\ serial = 3
  /\ pre = Db
  /\ prev = [resp |-> Idle, pre |-> Db]

NextQueue ==
  \/ CreateReservation(1)
  \/ CancelReservation(1)
  \/ FulfillReservation(1)
  \/ UpdateReservationPriorities(1)

SpecQueue == InitQueue /\ [][NextQueue]_vars

\* The reservation queues under concurrent requests.  Either nobody has reserved
\* yet, or users 1 and 2 have reserved both books, in that order (the state four
\* createReservation requests served one after another leave behind).
InitResConc ==
  /\ InitQueueUsers
  /\ books = (1 :> Book(1, 0)) @@ (2 :> [Book(1, 1) EXCEPT !.status = "unavailable"])
  /\ transactions = <<Loan(4, 1, 0, 1)>>
  /\ fines = <<>>
  /\ pc = [p \in Procs |-> "idle"]
  /\ loc = [p \in Procs |-> Idle]
  /\ resp = Idle
  /\ budget = MaxConcReqs
  /\ now = 0
  /\ \/ /\ reservations = <<>>
        /\ serial = 0
     \/ /\ reservations = << Reservation(1, 1, 0, 1, 2, 1), Reservation(2, 1, 0, 2, 2, 2),
                             Reservation(1, 2, 0, 3, 2, 1), Reservation(2, 2, 0, 4, 2, 2) >>
        /\ serial = 4
  /\ pre = Db
  /\ prev = [resp |-> Idle, pre |-> Db]

NextResConc ==
  \E p \in Procs :
    \/ CreateReservation(p)
    \/ CancelReservation(p)
    \/ FulfillReservation(p)
    \/ UpdateReservationPriorities(p)

SpecResConc == InitResConc /\ [][NextResConc]_vars

\* Concurrent createReservation requests alone, for the one book whose only
\* copy the librarian (user 3) holds.
InitReserve ==
  /\ users = [u \in 1 .. 3 |->
                [status |-> "active", role |-> IF u = 3 THEN "librarian" ELSE "borrower"]]
  /\ books = (1 :> Book(1, 0))
  /\ transactions = <<Loan(3, 1, 0, 1)>>
  /\ fines = <<>>
  /\ reservations = <<>>
  /\ InitWorkers(MaxConcReqs)
  /\ pre = Db
  /\ prev = [resp |-> Idle, pre |-> Db]

NextReserve == \E p \in Procs : CreateReservation(p)

SpecReserve == InitReserve /\ [][NextReserve]_vars

\* The reservation limit under concurrent requests.  The librarian (user 2)
\* holds the only copy of every book; user 1, a borrower, has reserved one book
\* fewer than the limit allows.
InitResLimit ==
  /\ InitUsers
  /\ books = [b \in 1 .. BorrowerReservationLimit + 1 |-> Book(1, 0)]
  /\ transactions = [b \in 1 .. BorrowerReservationLimit + 1 |-> Loan(2, b, 0, 1)]
  /\ fines = <<>>
  /\ reservations = [b \in 1 .. BorrowerReservationLimit - 1 |->
                       Reservation(1, b, 0, b, MaxExpiry, 1)]
  /\ pc = [p \in Procs |-> "idle"]
  /\ loc = [p \in Procs |-> Idle]
  /\ resp = Idle
  /\ budget = MaxConcReqs
  /\ now = 0
  /\ serial = BorrowerReservationLimit - 1
  /\ pre = Db
  /\ prev = [resp |-> Idle, pre |-> Db]

NextResLimit == \E p \in Procs : CreateReservation(p)

SpecResLimit == InitResLimit /\ [][NextResLimit]_vars

\* Every precondition of issueBook, one request at a time.  User 1 holds as many
\* loans as a borrower may (one copy of books 1 .. BorrowerLimit; book 1 has a
\* second copy on the shelf), user 2 is inactive, user 3 returned the last book
\* on time and was then fined for damage (createFine), user 4 is a librarian.
InitGuard ==
  /\ users = [u \in 1 .. 4 |->
                [status |-> IF u = 2 THEN "inactive" ELSE "active",
                 role |-> IF u = 4 THEN "librarian" ELSE "borrower"]]
  /\ books = [b \in 1 .. BorrowerLimit + 1 |->
                IF b = 1 THEN Book(2, 1)
                ELSE IF b <= BorrowerLimit THEN Book(1, 0) ELSE Book(1, 1)]
  /\ transactions = [t \in 1 .. BorrowerLimit + 1 |->
                       IF t <= BorrowerLimit THEN Loan(1, t, 0, 1)
                       ELSE [Loan(3, t, 0, 1) EXCEPT !.status = "returned",
                                                     !.returnDate = 0]]
  /\ fines = <<NewFine(3, BorrowerLimit + 1, 5, "damage")>>
  /\ reservations = <<>>
  /\ InitWorkers(MaxReqs)
  /\ pre = Db
  /\ prev = [resp |-> Idle, pre |-> Db]

NextGuard == IssueBook(1)

SpecGuard == InitGuard /\ [][NextGuard]_vars

\* The borrowing limit under concurrent requests.  User 1, a borrower, holds one
\* loan short of the limit; the two remaining books are on the shelf.
InitLimit ==
  /\ InitUsers
  /\ books = [b \in 1 .. BorrowerLimit + 1 |->
                IF b < BorrowerLimit THEN Book(1, 0) ELSE Book(1, 1)]
  /\ transactions = [b \in 1 .. BorrowerLimit - 1 |-> Loan(1, b, 0, 1)]
  /\ fines = <<>>
  /\ reservations = <<>>
  /\ InitWorkers(MaxConcReqs)
  /\ pre = Db
  /\ prev = [resp |-> Idle, pre |-> Db]

NextLimit == \E p \in Procs : IssueBook(p)

SpecLimit == InitLimit /\ [][NextLimit]_vars

\* Two loans of book 1, both copies out, and only returnBook requests, whose
\* steps interleave (the state two issueBook requests at time 0 leave behind).
InitReturn ==
  /\ InitUsers
  /\ books = (1 :> Book(2, 0))
  /\ transactions = <<Loan(1, 1, 0, 1), Loan(2, 1, 0, 1)>>
  /\ fines = <<>>
  /\ reservations = <<>>
  /\ InitWorkers(MaxConcReqs)
  /\ pre = Db
  /\ prev = [resp |-> Idle, pre |-> Db]

NextReturn == Tick \/ \E p \in Procs : ReturnBook(p)

SpecReturn == InitReturn /\ [][NextReturn]_vars

\* Fines, one request at a time.  User 1 holds books 1 and 2, and a damage fine
\* was charged on each loan (the state two createFine requests leave behind).
InitFine ==
  /\ InitUsers
  /\ books = (1 :> Book(1, 0)) @@ (2 :> Book(MaxCopies, MaxCopies - 1))
  /\ transactions = <<Loan(1, 1, 0, 1), Loan(1, 2, 0, 1)>>
  /\ fines = <<NewFine(1, 1, 5, "damage"), NewFine(1, 2, 5, "damage")>>
  /\ reservations = <<>>
  /\ InitWorkers(MaxReqs)
  /\ pre = Db
  /\ prev = [resp |-> Idle, pre |-> Db]

UpdateFine(p) == UpdateFine_find(p) \/ UpdateFine_save(p)

DeleteFine(p) == DeleteFine_find(p) \/ DeleteFine_remove(p)

NextFine ==
  \/ ProcessFinePayment(1)
  \/ WaiveFine(1)
  \/ UpdateFine(1)
  \/ DeleteFine(1)
  \/ Tick

SpecFine == InitFine /\ [][NextFine]_vars

\* Fines under concurrent requests.
InitPay ==
  /\ InitUsers
  /\ books = (1 :> Book(1, 0)) @@ (2 :> Book(MaxCopies, MaxCopies - 1))
  /\ transactions = <<Loan(1, 1, 0, 1), Loan(1, 2, 0, 1)>>
  /\ fines = <<NewFine(1, 1, 5, "damage"), NewFine(1, 2, 5, "damage")>>
  /\ reservations = <<>>
  /\ InitWorkers(MaxConcReqs)
  /\ pre = Db
  /\ prev = [resp |-> Idle, pre |-> Db]

NextPay ==
  \/ Tick
  \/ \E p \in Procs : ProcessFinePayment(p) \/ WaiveFine(p) \/ UpdateFine(p)

SpecPay == InitPay /\ [][NextPay]_vars

\* Loans, one request at a time.
NextLoan ==
  \/ IssueBook(1)
  \/ ReturnBook(1)
  \/ ExtendDueDate(1)
  \/ Tick

SpecLoan == InitCirc /\ [][NextLoan]_vars

\* Stock adjustments, one request at a time.
InitStock ==
  /\ InitUsers
  /\ InitBooks
  /\ fines = <<>>
  /\ reservations = <<>>
  /\ InitWorkers(MaxAdjusts)
  /\ pre = Db
  /\ prev = [resp |-> Idle, pre |-> Db]

NextStock == UpdateBookAvailability(1)

SpecStock == InitStock /\ [][NextStock]_vars

\* Returns and stock adjustments, one request at a time.
NextAdjust ==
  \/ ReturnBook(1)
  \/ UpdateBookAvailability(1)
  \/ Tick

SpecAdjust == InitStock /\ [][NextAdjust]_vars

\* The expiry sweep next to cancel and fulfill requests.  Users 1 and 2 queued
\* for book 1 and user 1 for book 2 at time 0 (the state three
\* createReservation requests leave behind).
InitSweep ==
  /\ InitQueueUsers
  /\ books = (1 :> Book(1, 0)) @@ (2 :> [Book(1, 1) EXCEPT !.status = "unavailable"])
  /\ transactions = <<Loan(4, 1, 0, 1)>>
  /\ fines = <<>>
  /\ reservations = << Reservation(1, 1, 0, 1, 2, 1), Reservation(2, 1, 0, 2, 3, 2),
                       Reservation(1, 2, 0, 3, 2, 1) >>
  /\ InitWorkers(MaxConcReqs)
  /\ pre = Db
  /\ prev = [resp |-> Idle, pre |-> Db]

NextSweep ==
  \/ Tick
  \/ \E p \in Procs :
       \/ CancelReservation(p)
       \/ FulfillReservation(p)
       \/ UpdateReservationPriorities(p)
       \/ AutoExpireReservations(p)

SpecSweep == InitSweep /\ [][NextSweep]_vars

----------------------------------------------------------------------------
\* Properties.

\* No request is in progress.
Quiet == \A p \in Procs : pc[p] = "idle"

IssuedCount(txs, b) ==
  Cardinality({i \in DOMAIN txs : txs[i].bookId = b /\ txs[i].status = "issued"})

LoansHeld(txs, u) ==
  Cardinality({i \in DOMAIN txs : txs[i].userId = u /\ txs[i].status = "issued"})

ActiveQueue(rs, b) == {i \in DOMAIN rs : rs[i].bookId = b /\ rs[i].status = "active"}

Contiguous(rs, b) ==
  {rs[i].priority : i \in ActiveQueue(rs, b)} = 1 .. Cardinality(ActiveQueue(rs, b))

\* C1: for every book 0 <= availableCopies <= totalCopies in every reachable
\* state, whatever issueBook, returnBook, updateBookAvailability and updateBook
\* requests ran and however their steps interleaved.
C1_CopiesWithinRange ==
  \A b \in DOMAIN books :
    0 <= books[b].availableCopies /\ books[b].availableCopies <= books[b].totalCopies

\* C2: concurrent issueBook requests never oversell: in every reachable state the
\* number of loans with status issued for a book is at most its totalCopies.
C2_NoOversell ==
  \A b \in DOMAIN books : IssuedCount(transactions, b) <= books[b].totalCopies

\* C3: whenever no request is in progress, the priorities of each book's active
\* reservations are exactly 1..N, N the number of its active reservations.
C3_PrioritiesContiguous ==
  Quiet => \A b \in DOMAIN books : Contiguous(reservations, b)

\* C4: a user never holds more loans with status issued than the borrowing
\* limit of the user's role (5 for a borrower, 10 for staff).
C4_WithinBorrowingLimit ==
  \A u \in DOMAIN users :
    LoansHeld(transactions, u) <= (IF users[u].role = "borrower" THEN 5 ELSE 10)

\* C5: when a successful issueBook is followed directly by a returnBook of that
\* loan received no later than the due date, the return succeeds, the loan has
\* fineAmount 0, no fine was created and availableCopies is back at its value
\* before the issue.
C5_RoundTripCase ==
  /\ Quiet
  /\ resp.op = "returnBook"
  /\ prev.resp.op = "issueBook"
  /\ prev.resp.success
  /\ prev.resp.txId = resp.txId
  /\ pre.now <= pre.transactions[resp.txId].dueDate

C5_RoundTrip ==
  C5_RoundTripCase =>
    /\ resp.success
    /\ transactions[resp.txId].status = "returned"
    /\ transactions[resp.txId].fineAmount = 0
    /\ fines = prev.pre.fines
    /\ books[prev.resp.bookId].availableCopies
         = prev.pre.books[prev.resp.bookId].availableCopies

C5_Witness == C5_RoundTripCase /\ resp.success

\* C6: a returnBook received at returnDate charges ceil((returnDate - dueDate) /
\* day) * dailyRate exactly when returnDate > dueDate: it then adds one pending
\* fine with reason overdue for that amount and stores the amount in the loan;
\* otherwise it adds no fine and stores 0.  On the due date the amount is 0, one
\* day after it is 1 * dailyRate.
C6_Lateness == pre.now - pre.transactions[resp.txId].dueDate

C6_Days ==
  CHOOSE k \in 0 .. MaxTime : k * DayLen >= C6_Lateness /\ (k - 1) * DayLen < C6_Lateness

C6_OverdueFine ==
  (Quiet /\ resp.op = "returnBook" /\ resp.success) =>
    LET t == transactions[resp.txId]
    IN /\ t.returnDate = pre.now
       /\ IF C6_Lateness > 0
          THEN /\ fines = Append(pre.fines,
                                 [userId |-> t.userId, transactionId |-> resp.txId,
                                  amount |-> C6_Days * DailyRate, reason |-> "overdue",
                                  paymentStatus |-> "pending", paymentDate |-> NoDate,
                                  processed |-> FALSE])
               /\ t.fineAmount = C6_Days * DailyRate
               /\ resp.fineAmount = t.fineAmount
          ELSE /\ fines = pre.fines
               /\ t.fineAmount = 0
       /\ (C6_Lateness = 0 => t.fineAmount = 0)
       /\ (C6_Lateness = DayLen => t.fineAmount = DailyRate)

C6_Witness ==
  /\ Quiet
  /\ resp.op = "returnBook"
  /\ resp.success
  /\ C6_Lateness > DayLen
  /\ transactions[resp.txId].fineAmount = 2 * DailyRate

\* C7: an issueBook for a borrower who had a pending fine when the request
\* arrived fails and creates no loan; an issueBook for a borrower with no pending
\* fine (all paid or waived) whose other preconditions hold succeeds and creates
\* the loan.
C7_HadPendingFine ==
  \E i \in DOMAIN pre.fines :
    pre.fines[i].userId = resp.userId /\ pre.fines[i].paymentStatus = "pending"

C7_OtherwiseEligible ==
  /\ users[resp.userId].status = "active"
  /\ pre.books[resp.bookId].availableCopies > 0
  /\ pre.books[resp.bookId].status = "available"
  /\ ~\E i \in DOMAIN pre.transactions :
        /\ pre.transactions[i].userId = resp.userId
        /\ pre.transactions[i].bookId = resp.bookId
        /\ pre.transactions[i].status = "issued"
  /\ LoansHeld(pre.transactions, resp.userId)
       < (IF users[resp.userId].role = "borrower" THEN 5 ELSE 10)

C7_FineGate ==
  (Quiet /\ resp.op = "issueBook") =>
    /\ C7_HadPendingFine => (~resp.success /\ transactions = pre.transactions)
    /\ (~C7_HadPendingFine /\ C7_OtherwiseEligible) =>
         /\ resp.success
         /\ Len(transactions) = Len(pre.transactions) + 1
         /\ transactions[Len(transactions)].userId = resp.userId
         /\ transactions[Len(transactions)].status = "issued"

C7_Witness ==
  /\ Quiet
  /\ resp.op = "issueBook"
  /\ resp.success
  /\ \E i \in DOMAIN fines :
       fines[i].userId = resp.userId /\ fines[i].paymentStatus \in {"paid", "waived"}

\* C8: no transaction ever has two fine records.
C8_OneFinePerLoan ==
  \A t \in DOMAIN transactions :
    Cardinality({i \in DOMAIN fines : fines[i].transactionId = t}) <= 1

\* C9: when autoExpireReservations runs twice in succession at the same value of
\* now, the second run leaves every reservation (status and priority) as the
\* first run left it and reports 0 reservations expired.
C9_SecondRun ==
  /\ Quiet
  /\ resp.op = "autoExpireReservations"
  /\ prev.resp.op = "autoExpireReservations"
  /\ pre.now = prev.pre.now

C9_AutoExpireIdempotent ==
  C9_SecondRun => (reservations = pre.reservations /\ resp.expiredCount = 0)

C9_Witness == C9_SecondRun /\ prev.resp.expiredCount > 0

\* C10: autoExpireReservations moves exactly the active reservations with
\* expiryDate < now to expired, and afterwards every book that lost a
\* reservation has its active reservations ranked 1..N in reservationDate order.
C10_AutoExpireReranks ==
  (Quiet /\ resp.op = "autoExpireReservations") =>
    /\ \A i \in DOMAIN reservations :
         reservations[i].status =
           IF pre.reservations[i].status = "active" /\ pre.reservations[i].expiryDate < pre.now
           THEN "expired" ELSE pre.reservations[i].status
    /\ \A b \in DOMAIN books :
         (ActiveQueue(reservations, b) # ActiveQueue(pre.reservations, b)) =>
           /\ Contiguous(reservations, b)
           /\ \A i, j \in ActiveQueue(reservations, b) :
                (\/ reservations[i].reservationDate < reservations[j].reservationDate
                 \/ /\ reservations[i].reservationDate = reservations[j].reservationDate
                    /\ reservations[i].stamp < reservations[j].stamp)
                => reservations[i].priority < reservations[j].priority

\* C11: a successful createReservation stores a reservation with status active
\* and priority = (number of active reservations of the book when the request
\* arrived) + 1, and returns that priority as queuePosition; while no reservation
\* of a book has left the queue, its reservations carry priorities 1, 2, ..., k
\* in the order they were requested.
C11_Created ==
  /\ Quiet
  /\ resp.op = "createReservation"
  /\ resp.success

C11_PriorityIsCountPlusOne ==
  /\ C11_Created =>
       /\ resp.resId = Len(pre.reservations) + 1
       /\ Len(reservations) = Len(pre.reservations) + 1
       /\ reservations[resp.resId].userId = resp.userId
       /\ reservations[resp.resId].bookId = resp.bookId
       /\ reservations[resp.resId].status = "active"
       /\ reservations[resp.resId].priority
            = Cardinality(ActiveQueue(pre.reservations, resp.bookId)) + 1
       /\ resp.queuePosition = reservations[resp.resId].priority
  /\ Quiet =>
       \A b \in DOMAIN books :
         (\A i \in DOMAIN reservations :
            reservations[i].bookId = b => reservations[i].status = "active")
         => \A i \in DOMAIN reservations :
              reservations[i].bookId = b =>
                reservations[i].priority
                  = Cardinality({j \in 1 .. i : reservations[j].bookId = b})

C11_Witness ==
  /\ C11_Created
  /\ resp.queuePosition = 3
  /\ \E i, j \in DOMAIN reservations :
       /\ reservations[i].bookId = resp.bookId /\ reservations[i].priority = 1
       /\ reservations[j].bookId = resp.bookId /\ reservations[j].priority = 2
       /\ reservations[i].status = "active" /\ reservations[j].status = "active"
       /\ \A k \in DOMAIN reservations :
            reservations[k].bookId = resp.bookId => reservations[k].status = "active"

\* C12: when cancelReservation or fulfillReservation takes an active reservation
\* out of the queue, the book's remaining active reservations are numbered 1..N
\* in ascending reservationDate order, and any two of them keep the relative
\* order their priorities had before the removal.
C12_Removed ==
  /\ Quiet
  /\ resp.op \in {"cancelReservation", "fulfillReservation"}
  /\ resp.success

C12_Renumbered ==
  C12_Removed =>
    /\ ActiveQueue(reservations, resp.bookId)
         = ActiveQueue(pre.reservations, resp.bookId) \ {resp.resId}
    /\ Contiguous(reservations, resp.bookId)
    /\ \A i, j \in ActiveQueue(reservations, resp.bookId) :
         (\/ reservations[i].reservationDate < reservations[j].reservationDate
          \/ /\ reservations[i].reservationDate = reservations[j].reservationDate
             /\ reservations[i].stamp < reservations[j].stamp)
         => reservations[i].priority < reservations[j].priority

C12_RerankKeepsOrder ==
  /\ C12_Renumbered
  /\ C12_Removed =>
       \A i, j \in ActiveQueue(reservations, resp.bookId) :
         pre.reservations[i].priority < pre.reservations[j].priority
         => reservations[i].priority < reservations[j].priority

\* C13: the reservations that createReservation requests of different users
\* create for the same book carry distinct priorities, however the steps of the
\* requests interleave.
C13_DistinctPriorities ==
  \A i, j \in DOMAIN reservations :
    (/\ i # j
     /\ reservations[i].bookId = reservations[j].bookId
     /\ reservations[i].userId # reservations[j].userId
     /\ reservations[i].status = "active"
     /\ reservations[j].status = "active")
    => reservations[i].priority # reservations[j].priority

\* C14: once every request has completed, whatever the interleaving of
\* cancelReservation or fulfillReservation (with their re-ranking) and
\* createReservation on a book, the book's active reservations have priorities
\* 1..N with no duplicate and no gap.
C14_QuietQueuesContiguous ==
  Quiet => \A b \in DOMAIN books :
             /\ Contiguous(reservations, b)
             /\ \A i, j \in ActiveQueue(reservations, b) :
                  i # j => reservations[i].priority # reservations[j].priority

\* C15: fulfillReservation succeeds exactly when the reservation is active and
\* its book has availableCopies > 0; a refused request changes nothing; a
\* successful one sets status fulfilled, fulfilledBy (a staff member) and
\* fulfilledDate, and leaves every book's availableCopies and totalCopies and
\* all loans and fines as they were.
C15_Fulfilled == Quiet /\ resp.op = "fulfillReservation"

C15_Allowed ==
  /\ pre.reservations[resp.resId].status = "active"
  /\ pre.books[pre.reservations[resp.resId].bookId].availableCopies > 0

C15_FulfillFrame ==
  C15_Fulfilled =>
    /\ resp.success <=> C15_Allowed
    /\ books = pre.books
    /\ transactions = pre.transactions
    /\ fines = pre.fines
    /\ ~resp.success => reservations = pre.reservations
    /\ resp.success =>
         /\ reservations[resp.resId].status = "fulfilled"
         /\ reservations[resp.resId].fulfilledBy \in DOMAIN users
         /\ users[reservations[resp.resId].fulfilledBy].role \in {"admin", "librarian"}
         /\ reservations[resp.resId].fulfilledDate = pre.now
         /\ \A i \in DOMAIN reservations :
              i # resp.resId => reservations[i].status = pre.reservations[i].status

C15_Witness ==
  /\ C15_Fulfilled
  /\ resp.success
  /\ books[resp.bookId].availableCopies > 0

\* C16: in every reachable state each (user, book) pair has at most one
\* reservation with status active, also when createReservation requests of the
\* same user for the same book interleave.
C16_OneActivePerPair ==
  \A i, j \in DOMAIN reservations :
    (/\ reservations[i].userId = reservations[j].userId
     /\ reservations[i].bookId = reservations[j].bookId
     /\ reservations[i].status = "active"
     /\ reservations[j].status = "active")
    => i = j

\* Two requests of one user for one book both passed the existing-reservation
\* check; the second create was rejected.
C16_Witness ==
  /\ Quiet
  /\ resp.op = "createReservation"
  /\ resp.code = 500
  /\ \E i \in DOMAIN reservations :
       /\ reservations[i].userId = resp.userId
       /\ reservations[i].bookId = resp.bookId
       /\ reservations[i].status = "active"
       /\ reservations[i].expiryDate > reservations[i].reservationDate

\* C17: a user never has more active reservations than the reservation limit
\* of the user's role (3 for a borrower, 5 for staff), also when
\* createReservation requests of the user for different books interleave.
C17_WithinReservationLimit ==
  \A u \in DOMAIN users :
    Cardinality({i \in DOMAIN reservations :
                   reservations[i].userId = u /\ reservations[i].status = "active"})
      <= (IF users[u].role = "borrower" THEN 3 ELSE 5)

\* C18: a createReservation for a book that has availableCopies > 0, whatever
\* the book's status field, is refused (400) and creates no reservation.
C18_RefusedWhenCopiesAvailable ==
  (/\ Quiet
   /\ resp.op = "createReservation"
   /\ pre.books[resp.bookId].availableCopies > 0)
  => /\ ~resp.success
     /\ resp.code = 400
     /\ reservations = pre.reservations

\* C19: an issueBook whose borrower is inactive, whose book is unavailable,
\* whose borrower already holds an open loan for the book, has reached the
\* borrowing limit or has a pending fine is refused, and a refused issueBook
\* changes nothing: loans, books, fines and reservations are as they were when
\* the request arrived.
C19_Precluded ==
  \/ users[resp.userId].status # "active"
  \/ pre.books[resp.bookId].availableCopies <= 0
  \/ pre.books[resp.bookId].status # "available"
  \/ \E i \in DOMAIN pre.transactions :
       /\ pre.transactions[i].userId = resp.userId
       /\ pre.transactions[i].bookId = resp.bookId
       /\ pre.transactions[i].status = "issued"
  \/ LoansHeld(pre.transactions, resp.userId)
       >= (IF users[resp.userId].role = "borrower" THEN 5 ELSE 10)
  \/ \E i \in DOMAIN pre.fines :
       pre.fines[i].userId = resp.userId /\ pre.fines[i].paymentStatus = "pending"

C19_FailedIssueChangesNothing ==
  (Quiet /\ resp.op = "issueBook" /\ (C19_Precluded \/ ~resp.success)) =>
    /\ ~resp.success
    /\ resp.code = 400
    /\ transactions = pre.transactions
    /\ books = pre.books
    /\ fines = pre.fines
    /\ reservations = pre.reservations

\* The request of a borrower at the limit for a book on the shelf is refused.
C19_Witness ==
  /\ Quiet
  /\ resp.op = "issueBook"
  /\ ~resp.success
  /\ users[resp.userId].status = "active"
  /\ pre.books[resp.bookId].availableCopies > 0
  /\ LoansHeld(pre.transactions, resp.userId) = 5
  /\ \A i \in DOMAIN pre.transactions :
       pre.transactions[i].userId = resp.userId => pre.transactions[i].bookId # resp.bookId

\* C20: in every reachable state each (user, book) pair has at most one loan
\* with status issued, also when issueBook requests for the same user and book
\* interleave.
C20_OneOpenLoanPerPair ==
  \A i, j \in DOMAIN transactions :
    (/\ transactions[i].userId = transactions[j].userId
     /\ transactions[i].bookId = transactions[j].bookId
     /\ transactions[i].status = "issued"
     /\ transactions[j].status = "issued")
    => i = j

\* C21: each loan releases its copy at most once.  However returnBook requests
\* for one loan interleave, availableCopies is incremented at most once per
\* loan (the copies on the shelf never exceed the copies that are not on loan)
\* and no loan has more than one overdue fine.
C21_OverdueFinesOf(t) ==
  {f \in DOMAIN fines : fines[f].transactionId = t /\ fines[f].reason = "overdue"}

C21_ReleasedAtMostOnce ==
  /\ \A b \in DOMAIN books :
       books[b].availableCopies <= books[b].totalCopies - IssuedCount(transactions, b)
  /\ \A t \in DOMAIN transactions : Cardinality(C21_OverdueFinesOf(t)) <= 1

\* C22: a fine whose paymentStatus is paid or waived is immutable: no later
\* processFinePayment, waiveFine, updateFine or deleteFine changes its amount,
\* reason or paymentStatus, or removes it.  (pre is the store when the latest
\* request arrived.)
C22_SettledFineImmutable ==
  \A f \in DOMAIN pre.fines :
    pre.fines[f].paymentStatus \in {"paid", "waived"}
      => /\ fines[f].amount = pre.fines[f].amount
         /\ fines[f].reason = pre.fines[f].reason
         /\ fines[f].paymentStatus = pre.fines[f].paymentStatus

\* C23: in every reachable state a fine has a paymentDate if and only if its
\* paymentStatus is paid, also when a processFinePayment and a waiveFine of the
\* same fine interleave their load and save steps.
C23_PaymentDateIffPaid ==
  \A f \in DOMAIN fines :
    (fines[f].paymentDate # NoDate) <=> (fines[f].paymentStatus = "paid")

\* C24: processFinePayment and waiveFine succeed only on a pending fine.  On a
\* paid or waived fine each fails with an already-paid / already-waived error
\* and leaves the fines unchanged; a successful processFinePayment stores
\* paymentStatus paid, paymentDate = now and the processing user, a successful
\* waiveFine stores paymentStatus waived and the processing user, and nothing
\* else changes.
C24_Refusal ==
  [processFinePayment |-> [paid |-> "Fine is already paid", waived |-> "Fine has been waived"],
   waiveFine |-> [paid |-> "Cannot waive a paid fine", waived |-> "Fine is already waived"]]

C24_Settled ==
  LET old == pre.fines[resp.fineId]
  IN IF resp.op = "processFinePayment"
     THEN [old EXCEPT !.paymentStatus = "paid", !.paymentDate = pre.now, !.processed = TRUE]
     ELSE [old EXCEPT !.paymentStatus = "waived", !.processed = TRUE]

C24_PayWaiveOnlyPending ==
  (Quiet /\ resp.op \in {"processFinePayment", "waiveFine"})
    => LET old == pre.fines[resp.fineId]
       IN /\ old.paymentStatus \in {"paid", "waived"}
               => /\ ~resp.success
                  /\ resp.code = 400
                  /\ resp.message = C24_Refusal[resp.op][old.paymentStatus]
                  /\ fines = pre.fines
          /\ resp.success
               => /\ old.paymentStatus = "pending"
                  /\ fines = [pre.fines EXCEPT ![resp.fineId] = C24_Settled]

\* A payment of a waived fine was refused, after that fine had been waived.
C24_Witness ==
  /\ Quiet
  /\ resp.op = "processFinePayment"
  /\ ~resp.success
  /\ pre.fines[resp.fineId].paymentStatus = "waived"
  /\ prev.resp.op = "waiveFine"
  /\ prev.resp.success
  /\ prev.resp.fineId = resp.fineId

\* C25: a return whose copy release would push availableCopies above
\* totalCopies is refused as a whole: after a returnBook request the loan has
\* not become returned, and no fine has been created, unless the book's
\* availableCopies was incremented.
C25_ReturnAllOrNothing ==
  (Quiet /\ resp.op = "returnBook")
    => LET old == pre.transactions[resp.txId]
           released == books[old.bookId].availableCopies
                         = pre.books[old.bookId].availableCopies + 1
       IN /\ (old.status = "issued" /\ transactions[resp.txId].status = "returned")
               => released
          /\ fines # pre.fines => released

\* C26: extendDueDate succeeds only on a loan whose status is issued; when it
\* fails nothing changes.  On success it replaces dueDate and appends a note
\* to the loan, and the loan's status, fineAmount and returnDate, every other
\* loan, the books and the fines are unchanged.
C26_Extended ==
  LET old == pre.transactions[resp.txId]
  IN [old EXCEPT !.dueDate = resp.newDueDate,
                 !.notes = Append(old.notes, "Due date extended")]

C26_ExtendFrame ==
  (Quiet /\ resp.op = "extendDueDate")
    => /\ books = pre.books
       /\ fines = pre.fines
       /\ IF resp.success
          THEN /\ pre.transactions[resp.txId].status = "issued"
               /\ transactions = [pre.transactions EXCEPT ![resp.txId] = C26_Extended]
               /\ transactions[resp.txId].status = "issued"
               /\ transactions[resp.txId].fineAmount = 0
               /\ transactions[resp.txId].returnDate = NoDate
          ELSE transactions = pre.transactions

\* The due date of an issued loan that was already late has been extended.
C26_Witness ==
  /\ Quiet
  /\ resp.op = "extendDueDate"
  /\ resp.success
  /\ pre.now > pre.transactions[resp.txId].dueDate
  /\ transactions[resp.txId].dueDate # pre.transactions[resp.txId].dueDate
  /\ transactions[resp.txId].notes # <<>>

\* C27: a loan's stored status only moves from issued to returned (or lost).
\* Every step leaves each stored loan's status as it was or takes it from
\* issued to returned or lost, never stores overdue, creates loans with status
\* issued, and changes neither the status nor the returnDate nor the
\* fineAmount of a loan that is returned.
C27_LoanStep(old, new) ==
  /\ new.status # "overdue"
  /\ \/ new.status = old.status
     \/ old.status = "issued" /\ new.status \in {"returned", "lost"}
  /\ old.status = "returned"
       => /\ new.returnDate = old.returnDate
          /\ new.fineAmount = old.fineAmount

C27_StatusOnlyForward ==
  [][\A t \in DOMAIN transactions' :
       IF t \in DOMAIN transactions
       THEN C27_LoanStep(transactions[t], transactions'[t])
       ELSE transactions'[t].status = "issued"]_vars

\* A second returnBook of a loan that was returned at an earlier time has been
\* refused.
C27_Witness ==
  /\ Quiet
  /\ resp.op = "returnBook"
  /\ ~resp.success
  /\ transactions[resp.txId].status = "returned"
  /\ transactions[resp.txId].returnDate < now

\* C28: updateBookAvailability fails and leaves the stored books unchanged
\* whenever the resulting availableCopies would exceed the resulting
\* totalCopies or either would be negative; otherwise it stores exactly the
\* given totals (a count the body leaves out keeps its stored value).
C28_Resulting(field) ==
  IF resp.body[field] = <<>> THEN pre.books[resp.bookId][field] ELSE resp.body[field][1]

C28_AdjustValidated ==
  (Quiet /\ resp.op = "updateBookAvailability")
    => LET total == C28_Resulting("totalCopies")
           available == C28_Resulting("availableCopies")
       IN IF available > total \/ available < 0 \/ total < 0
          THEN ~resp.success /\ books = pre.books
          ELSE /\ resp.success
               /\ books = [pre.books EXCEPT ![resp.bookId].totalCopies = total,
                                            ![resp.bookId].availableCopies = available]

\* An adjustment that gave only a lower totalCopies, below the stored
\* availableCopies, was refused.
C28_Witness ==
  /\ Quiet
  /\ resp.op = "updateBookAvailability"
  /\ ~resp.success
  /\ resp.body.availableCopies = <<>>
  /\ resp.body.totalCopies # <<>>
  /\ resp.body.totalCopies[1] >= 0
  /\ resp.body.totalCopies[1] < books[resp.bookId].availableCopies

\* C29: copy conservation.  With requests served one at a time and no adjust
\* operation, every book that started with availableCopies + (number of its
\* issued loans) = totalCopies satisfies that equality after every completed
\* issueBook and returnBook.
C29_Conserved(b) ==
  books[b].availableCopies
    + Cardinality({t \in DOMAIN transactions :
                     transactions[t].bookId = b /\ transactions[t].status = "issued"})
    = books[b].totalCopies

C29_CopyConservation == Quiet => \A b \in DOMAIN books : C29_Conserved(b)

\* A copy of a book with several copies is out on loan after an issueBook, and
\* an earlier loan has been returned.
C29_Witness ==
  /\ Quiet
  /\ resp.op = "issueBook"
  /\ resp.success
  /\ books[resp.bookId].availableCopies < books[resp.bookId].totalCopies
  /\ \E t \in DOMAIN transactions : transactions[t].status = "returned"

\* C30: the reservation statuses fulfilled, cancelled and expired are
\* terminal.  No step changes the status of a reservation that is not active,
\* and a step that changes the status of an active one takes it to fulfilled,
\* cancelled or expired, also when a cancel or a fulfill of a reservation
\* interleaves with an autoExpireReservations sweep that expires it.
C30_TerminalStatuses ==
  [][\A i \in DOMAIN reservations :
       \/ reservations'[i].status = reservations[i].status
       \/ /\ reservations[i].status = "active"
          /\ reservations'[i].status \in {"fulfilled", "cancelled", "expired"}]_vars

====
